---- MODULE Spec2Model ----
(***************************************************************************)
(* Model of emerald's autotiling component                                 *)
(* (src/emerald/src/core/components/autotilemap.rs): the AutoTileRuleset   *)
(* matcher and the AutoTilemap occupancy grid, ruleset collection and      *)
(* bake pass.                                                              *)
(*                                                                         *)
(* Encodings.  Option<T> is a sequence of length at most one: <<>> is      *)
(* None and <<v>> is Some(v).  Result<T, EmeraldError> is a record         *)
(* [ok |-> TRUE, val |-> v] or [ok |-> FALSE].  A Vec is a sequence, so    *)
(* the element at Rust index i is at TLA+ index i + 1; the same holds for  *)
(* the 5x5 pattern grid, grid[rx][ry] being grid[rx + 1][ry + 1] here.     *)
(***************************************************************************)
EXTENDS Integers, Sequences, FiniteSets, TLC

(* ------------------------------ bounds -------------------------------- *)

\* The widest and the tallest grid handed to new(...).
MaxWidth == 2

MaxHeight == 2

\* The most cells (width * height) of a grid handed to new(...).
MaxCells == 4

\* The longest ruleset collection.
MaxRulesets == 2

\* The same three bounds on the grids that compute_tile_id is asked about.
MaxQueryWidth == 3

MaxQueryHeight == 3

MaxQueryCells == 6

\* The longest ruleset collection that remove_ruleset is called on.
MaxRemoveRulesets == 3

(* --------------------------- program constants ------------------------ *)

AUTOTILE_RULESET_GRID_SIZE == 5

AutoTileRulesetValue == {"None", "Tile", "Any"}

AutoTile == {"None", "Tile"}

None == <<>>

Some(v) == <<v>>

Ok(v) == [ok |-> TRUE, val |-> v]

Err == [ok |-> FALSE]

(* ------------------------------ inputs -------------------------------- *)

AnyRow == <<"Any", "Any", "Any", "Any", "Any">>

\* Every position is a wildcard.
GridAllAny == <<AnyRow, AnyRow, AnyRow, AnyRow, AnyRow>>

\* Ex 1 of the doc comment of AutoTileRuleset::grid: the "completely alone" grid.
GridAlone ==
    << AnyRow,
       <<"Any", "None", "None", "None", "Any">>,
       <<"Any", "None", "Tile", "None", "Any">>,
       <<"Any", "None", "None", "None", "Any">>,
       AnyRow >>

\* Only grid[3][2] is concrete: the neighbour at (x + 1, y) must be a Tile.
\* The center carries None, which the matcher must ignore.
GridRightTile ==
    << AnyRow,
       AnyRow,
       <<"Any", "Any", "None", "Any", "Any">>,
       <<"Any", "Any", "Tile", "Any", "Any">>,
       AnyRow >>

\* The rulesets callers hand to new(...) and add_ruleset(...).
RulesetPool ==
    { [tile_id |-> 1, grid |-> GridAllAny],
      [tile_id |-> 2, grid |-> GridRightTile],
      [tile_id |-> 1, grid |-> GridAlone] }

\* The tile ids callers pass to remove_ruleset.
TileIds == {1, 2}

RECURSIVE SeqsUpTo(_, _)
SeqsUpTo(S, n) ==
    IF n = 0 THEN {<<>>}
    ELSE LET shorter == SeqsUpTo(S, n - 1)
         IN  shorter \cup {Append(s, e) : s \in {t \in shorter : Len(t) = n - 1}, e \in S}

VARIABLES width, height, autotiles, tiles, rulesets, last, snap

vars == <<width, height, autotiles, tiles, rulesets, last, snap>>

(* ------------------- Grid Indexer and Base Tile Grid ------------------ *)

\* tilemap.rs is not among the sources at hand: the Grid Indexer and the Base
\* Tile Grid follow sections 4.1 and 6 of the specification.

\* tilemap::get_tilemap_index: the flat index of (x, y), or a bounds error.
get_tilemap_index(x, y, w, h) ==
    IF x >= w \/ y >= h THEN Err ELSE Ok((y * w) + x)

\* Tilemap::new: every cell of the Base Tile Grid starts empty.
Tilemap_new(w, h) == [i \in 1..(w * h) |-> None]

\* Tilemap::set_tile on the tile vector t: the vector after the call, and
\* whether the call succeeded.
Tilemap_set_tile(t, w, h, x, y, new_tile_id) ==
    LET index == get_tilemap_index(x, y, w, h)
    IN  IF index.ok
        THEN [ok |-> TRUE, tiles |-> [t EXCEPT ![index.val + 1] = new_tile_id]]
        ELSE [ok |-> FALSE, tiles |-> t]

\* Tilemap::get_tile.
Tilemap_get_tile(t, w, h, x, y) ==
    LET index == get_tilemap_index(x, y, w, h)
    IN  IF index.ok THEN Ok(t[index.val + 1]) ELSE Err

(* --------------------------- Ruleset Matcher -------------------------- *)

\* get_autotile_ruleset_value with a slip: a neighbour outside the map counts
\* as an empty cell instead of Any.
get_autotile_ruleset_value_outside_empty(at, w, h, x, y) ==
    IF x < 0 \/ y < 0
    THEN "None"
    ELSE LET index == get_tilemap_index(x, y, w, h)
         IN  IF index.ok
             THEN (IF at[index.val + 1] = "None" THEN "None" ELSE "Tile")
             ELSE "None"

\* AutoTileRuleset::get_autotile_ruleset_value: x and y are signed.
get_autotile_ruleset_value(at, w, h, x, y) ==
    IF x < 0 \/ y < 0
    THEN "Any"
    ELSE LET index == get_tilemap_index(x, y, w, h)
         IN  IF index.ok
             THEN (IF at[index.val + 1] = "None" THEN "None" ELSE "Tile")
             ELSE "Any"

\* The body of the double loop of AutoTileRuleset::matches for one pattern
\* position: TRUE when the loop continues, FALSE when it returns false.
matches_position(ruleset, at, w, h, x, y, ruleset_x, ruleset_y) ==
    IF (ruleset_x = (AUTOTILE_RULESET_GRID_SIZE \div 2)
          /\ ruleset_y = (AUTOTILE_RULESET_GRID_SIZE \div 2))
       \/ ruleset.grid[ruleset_x + 1][ruleset_y + 1] = "Any"
    THEN TRUE
    ELSE LET autotile_ruleset_value ==
                 get_autotile_ruleset_value(
                     at, w, h,
                     x - (AUTOTILE_RULESET_GRID_SIZE \div 2) + ruleset_x,
                     y - (AUTOTILE_RULESET_GRID_SIZE \div 2) + ruleset_y)
         IN  ruleset.grid[ruleset_x + 1][ruleset_y + 1] = autotile_ruleset_value

\* matches with a slip: the occupancy of the cell itself is not looked at.
matches_any_center(ruleset, at, w, h, x, y) ==
    LET index == get_tilemap_index(x, y, w, h)
    IN  IF ~index.ok
        THEN FALSE
        ELSE \A ruleset_x \in 0..(AUTOTILE_RULESET_GRID_SIZE - 1) :
             \A ruleset_y \in 0..(AUTOTILE_RULESET_GRID_SIZE - 1) :
                 matches_position(ruleset, at, w, h, x, y, ruleset_x, ruleset_y)

\* AutoTileRuleset::matches.  The loop has no effect but its early return,
\* so it returns true exactly when no position makes it return false.
matches(ruleset, at, w, h, x, y) ==
    LET index == get_tilemap_index(x, y, w, h)
    IN  IF ~index.ok
        THEN FALSE
        ELSE IF at[index.val + 1] # "Tile"
        THEN FALSE
        ELSE \A ruleset_x \in 0..(AUTOTILE_RULESET_GRID_SIZE - 1) :
             \A ruleset_y \in 0..(AUTOTILE_RULESET_GRID_SIZE - 1) :
                 matches_position(ruleset, at, w, h, x, y, ruleset_x, ruleset_y)

(* ------------------------- Autotile Orchestrator ---------------------- *)

\* find with a slip: the scan keeps the last ruleset that matches, not the first.
RECURSIVE find_matching_last(_, _, _, _, _, _, _)
find_matching_last(rs, i, at, w, h, x, y) ==
    IF i > Len(rs) THEN None
    ELSE LET later == find_matching_last(rs, i + 1, at, w, h, x, y)
         IN  IF later # None THEN later
             ELSE IF matches(rs[i], at, w, h, x, y) THEN Some(rs[i])
             ELSE None

\* rulesets.iter().find(|ruleset| ruleset.matches(..)) scanning from index i.
RECURSIVE find_matching(_, _, _, _, _, _, _)
find_matching(rs, i, at, w, h, x, y) ==
    IF i > Len(rs) THEN None
    ELSE IF matches(rs[i], at, w, h, x, y) THEN Some(rs[i])
    ELSE find_matching(rs, i + 1, at, w, h, x, y)

\* AutoTilemap::compute_tile_id on a given ruleset collection and occupancy.
compute_tile_id_on(rs, at, w, h, x, y) ==
    LET found == find_matching(rs, 1, at, w, h, x, y)
    IN  IF found # None THEN Ok(Some(found[1].tile_id)) ELSE Ok(None)

\* AutoTilemap::compute_tile_id.
compute_tile_id(x, y) == compute_tile_id_on(rulesets, autotiles, width, height, x, y)

\* AutoTilemap::get_tile_id.
get_tile_id(x, y) == Tilemap_get_tile(tiles, width, height, x, y)

\* position with a slip: the last ruleset with the tile id (rposition).
RECURSIVE position_last(_, _, _)
position_last(rs, i, tile_id) ==
    IF i > Len(rs) THEN 0
    ELSE LET later == position_last(rs, i + 1, tile_id)
         IN  IF later # 0 THEN later
             ELSE IF rs[i].tile_id = tile_id THEN i
             ELSE 0

\* rulesets.iter().position(|ruleset| ruleset.tile_id == tile_id) from index i;
\* 0 stands for no position.
RECURSIVE position(_, _, _)
position(rs, i, tile_id) ==
    IF i > Len(rs) THEN 0
    ELSE IF rs[i].tile_id = tile_id THEN i
    ELSE position(rs, i + 1, tile_id)

\* AutoTilemap::get_ruleset.
get_ruleset(tile_id) ==
    LET index == position(rulesets, 1, tile_id)
    IN  IF index = 0 THEN None ELSE Some(rulesets[index])

\* Vec::remove with a slip: the last element takes the place of the removed
\* one (Vec::swap_remove), so the order of the rest is not kept.
Vec_swap_remove(rs, index) ==
    [i \in 1..(Len(rs) - 1) |-> IF i = index THEN rs[Len(rs)] ELSE rs[i]]

\* Vec::remove(index): the elements after it shift down by one.
Vec_remove(rs, index) ==
    [i \in 1..(Len(rs) - 1) |-> IF i < index THEN rs[i] ELSE rs[i + 1]]

\* remove_ruleset with a slip: every ruleset with the tile id is dropped
\* (retain), the first of them returned.
RECURSIVE without_tile_id(_, _)
without_tile_id(rs, tile_id) ==
    IF rs = <<>> THEN <<>>
    ELSE IF Head(rs).tile_id = tile_id THEN without_tile_id(Tail(rs), tile_id)
    ELSE <<Head(rs)>> \o without_tile_id(Tail(rs), tile_id)

remove_ruleset_every(rs, tile_id) ==
    LET index == position(rs, 1, tile_id)
    IN  IF index # 0
        THEN [ret |-> Some(rs[index]), rulesets |-> without_tile_id(rs, tile_id)]
        ELSE [ret |-> None, rulesets |-> rs]

\* AutoTilemap::remove_ruleset: the returned option and the collection left.
remove_ruleset(rs, tile_id) ==
    LET index == position(rs, 1, tile_id)
    IN  IF index # 0
        THEN [ret |-> Some(rs[index]), rulesets |-> Vec_remove(rs, index)]
        ELSE [ret |-> None, rulesets |-> rs]

\* AutoTilemap::add_ruleset.
add_ruleset(rs, ruleset) == Append(rs, ruleset)

\* set_autotile with a slip: the marker is written to the whole row y.
set_autotile_row(x, y, new_tile_id) ==
    LET index == get_tilemap_index(x, y, width, height)
    IN  IF index.ok
        THEN [ret |-> Ok(<<>>),
              autotiles |-> [i \in 1..(width * height) |->
                                IF (i - 1) \div width = y THEN new_tile_id
                                ELSE autotiles[i]]]
        ELSE [ret |-> Err, autotiles |-> autotiles]

\* AutoTilemap::set_autotile: the result and the occupancy vector left.
set_autotile(x, y, new_tile_id) ==
    LET index == get_tilemap_index(x, y, width, height)
    IN  IF index.ok
        THEN [ret |-> Ok(<<>>),
              autotiles |-> [autotiles EXCEPT ![index.val + 1] = new_tile_id]]
        ELSE [ret |-> Err, autotiles |-> autotiles]

\* AutoTilemap::set_tile.
set_tile(x, y) == set_autotile(x, y, "Tile")

\* AutoTilemap::set_none.
set_none(x, y) == set_autotile(x, y, "None")

\* The bake loops with a slip: a cell is written only when a ruleset matched
\* it, so a cell that lost its match keeps its tile.
RECURSIVE bake_from_matched_only(_, _)
bake_from_matched_only(t, k) ==
    IF k >= width * height
    THEN [ret |-> Ok(<<>>), tiles |-> t]
    ELSE LET x == k \div height
             y == k % height
             computed == compute_tile_id(x, y)
         IN  IF computed.val = None
             THEN bake_from_matched_only(t, k + 1)
             ELSE bake_from_matched_only(
                      Tilemap_set_tile(t, width, height, x, y, computed.val).tiles, k + 1)

\* The loops of AutoTilemap::bake from the k-th cell on, x outer and y inner:
\* cell k is (k div height, k mod height).  Either `?` ends the pass with the
\* tiles written so far.
RECURSIVE bake_from(_, _)
bake_from(t, k) ==
    IF k >= width * height
    THEN [ret |-> Ok(<<>>), tiles |-> t]
    ELSE LET x == k \div height
             y == k % height
             computed == compute_tile_id(x, y)
         IN  IF ~computed.ok
             THEN [ret |-> Err, tiles |-> t]
             ELSE LET written == Tilemap_set_tile(t, width, height, x, y, computed.val)
                  IN  IF ~written.ok
                      THEN [ret |-> Err, tiles |-> written.tiles]
                      ELSE bake_from(written.tiles, k + 1)

\* AutoTilemap::bake.
bake == bake_from(tiles, 0)

(* ------------------------------- state -------------------------------- *)

\* The object's fields are width, height (tilemap.width, tilemap.height),
\* tiles (tilemap.tiles), autotiles and rulesets.  Two records of the calls
\* made so far let the properties speak about them:
\*   last  the most recent call: the method that ran (set_tile and set_none
\*         run set_autotile and are recorded as such), what it returned, and
\*         whether it was a bake made directly after another bake;
\*   snap  None, or after remove_ruleset Some of the argument of that call
\*         and of the fields as they were before it; a bake made directly
\*         after a remove_ruleset that started from a baked state keeps it,
\*         every other call drops it.
Cells == (0..(width - 1)) \X (0..(height - 1))

\* The place of cell c in autotiles and tiles.
At(c) == get_tilemap_index(c[1], c[2], width, height).val + 1

\* A baked state: the tiles ts are what compute_tile_id gives, cell for cell,
\* on the rulesets rs and the occupancy at.
Baked(ts, rs, at) ==
    \A c \in Cells :
        ts[At(c)] = compute_tile_id_on(rs, at, width, height, c[1], c[2]).val

\* The snap a bake leaves.
SnapAfterBake ==
    IF last.op = "remove_ruleset"
          /\ Baked(snap[1].tiles, snap[1].rulesets, snap[1].autotiles)
    THEN snap
    ELSE None

Called(op, ret) ==
    last' = [op |-> op, ret |-> ret, again |-> (op = "bake" /\ last.op = "bake")]

\* The coordinates callers pass: every cell, and the first coordinate past
\* the end of each axis.
Coords == Cells \cup {<<width, 0>>, <<0, height>>}

\* AutoTilemap::new.
Init ==
    /\ width \in 1..MaxWidth
    /\ height \in 1..MaxHeight
    /\ width * height <= MaxCells
    /\ rulesets \in SeqsUpTo(RulesetPool, MaxRulesets)
    /\ autotiles = [i \in 1..(width * height) |-> "None"]
    /\ tiles = Tilemap_new(width, height)
    /\ last = [op |-> "new", ret |-> Ok(<<>>), again |-> FALSE]
    /\ snap = None

SetTile(x, y) ==
    /\ autotiles' = set_tile(x, y).autotiles
    /\ Called("set_autotile", set_tile(x, y).ret)
    /\ snap' = None
    /\ UNCHANGED <<width, height, tiles, rulesets>>

SetNone(x, y) ==
    /\ autotiles' = set_none(x, y).autotiles
    /\ Called("set_autotile", set_none(x, y).ret)
    /\ snap' = None
    /\ UNCHANGED <<width, height, tiles, rulesets>>

SetAutotile(x, y, new_tile_id) ==
    /\ autotiles' = set_autotile(x, y, new_tile_id).autotiles
    /\ Called("set_autotile", set_autotile(x, y, new_tile_id).ret)
    /\ snap' = None
    /\ UNCHANGED <<width, height, tiles, rulesets>>

AddRuleset(ruleset) ==
    /\ Len(rulesets) < MaxRulesets
    /\ rulesets' = add_ruleset(rulesets, ruleset)
    /\ Called("add_ruleset", Ok(<<>>))
    /\ snap' = None
    /\ UNCHANGED <<width, height, autotiles, tiles>>

RemoveRuleset(tile_id) ==
    /\ rulesets' = remove_ruleset(rulesets, tile_id).rulesets
    /\ Called("remove_ruleset", remove_ruleset(rulesets, tile_id).ret)
    /\ snap' = Some([tile_id |-> tile_id, rulesets |-> rulesets,
                     autotiles |-> autotiles, tiles |-> tiles])
    /\ UNCHANGED <<width, height, autotiles, tiles>>

\* Bake with a slip: the pass uses up the occupancy markers it has read.
Bake_clearing ==
    /\ tiles' = bake.tiles
    /\ autotiles' = [i \in 1..(width * height) |-> "None"]
    /\ Called("bake", bake.ret)
    /\ snap' = SnapAfterBake
    /\ UNCHANGED <<width, height, rulesets>>

Bake ==
    /\ tiles' = bake.tiles
    /\ Called("bake", bake.ret)
    /\ snap' = SnapAfterBake
    /\ UNCHANGED <<width, height, autotiles, rulesets>>

Next ==
    \/ \E c \in Coords : SetTile(c[1], c[2])
    \/ \E c \in Coords : SetNone(c[1], c[2])
    \/ \E c \in Coords, new_tile_id \in AutoTile : SetAutotile(c[1], c[2], new_tile_id)
    \/ \E ruleset \in RulesetPool : AddRuleset(ruleset)
    \/ \E tile_id \in TileIds : RemoveRuleset(tile_id)
    \/ Bake

Spec == Init /\ [][Next]_vars

(* ------------------- the read-only compute_tile_id -------------------- *)

\* A caller asks compute_tile_id about (x, y); last keeps the question and
\* the answer.  The call changes no field.
ComputeTileId(x, y) ==
    /\ last' = [op |-> "compute_tile_id", ret |-> compute_tile_id(x, y),
                again |-> FALSE, x |-> x, y |-> y]
    /\ UNCHANGED <<width, height, autotiles, tiles, rulesets, snap>>

\* The object when compute_tile_id is asked: any grid size within the query
\* bounds, any ruleset collection, and any occupancy, each of which set_tile
\* calls reach from new.  Callers go on adding rulesets between questions.
InitQuery ==
    /\ width \in 1..MaxQueryWidth
    /\ height \in 1..MaxQueryHeight
    /\ width * height <= MaxQueryCells
    /\ rulesets \in SeqsUpTo(RulesetPool, MaxRulesets)
    /\ autotiles \in [1..(width * height) -> AutoTile]
    /\ tiles = Tilemap_new(width, height)
    /\ last = [op |-> "new", ret |-> Ok(<<>>), again |-> FALSE]
    /\ snap = None

NextQuery ==
    \/ \E c \in Coords : ComputeTileId(c[1], c[2])
    \/ \E ruleset \in RulesetPool : AddRuleset(ruleset)

SpecQuery == InitQuery /\ [][NextQuery]_vars

(* ------------------ remove_ruleset on longer collections -------------- *)

\* The object when rulesets are removed: any grid size within the bounds, any
\* occupancy, which set_tile calls reach from new, and any ruleset
\* collection of up to MaxRemoveRulesets rulesets.  Callers remove rulesets
\* and bake.
InitRemove ==
    /\ width \in 1..MaxWidth
    /\ height \in 1..MaxHeight
    /\ width * height <= MaxCells
    /\ rulesets \in SeqsUpTo(RulesetPool, MaxRemoveRulesets)
    /\ autotiles \in [1..(width * height) -> AutoTile]
    /\ tiles = Tilemap_new(width, height)
    /\ last = [op |-> "new", ret |-> Ok(<<>>), again |-> FALSE]
    /\ snap = None

NextRemove ==
    \/ \E tile_id \in TileIds : RemoveRuleset(tile_id)
    \/ Bake

SpecRemove == InitRemove /\ [][NextRemove]_vars

(* ----------------------------- vocabulary ----------------------------- *)

Occupied(at, c) == at[At(c)] = "Tile"

Min(S) == CHOOSE m \in S : \A n \in S : m <= n

\* The indices of the rulesets of rs that match cell c under occupancy at.
Matching(rs, at, c) ==
    {i \in 1..Len(rs) : matches(rs[i], at, width, height, c[1], c[2])}

Positions ==
    (0..(AUTOTILE_RULESET_GRID_SIZE - 1)) \X (0..(AUTOTILE_RULESET_GRID_SIZE - 1))

Center == <<AUTOTILE_RULESET_GRID_SIZE \div 2, AUTOTILE_RULESET_GRID_SIZE \div 2>>

NonCenter == Positions \ {Center}

\* The neighbour of cell c that pattern position p looks at lies outside the grid.
OutOfGrid(c, p) ==
    LET nx == c[1] + p[1] - (AUTOTILE_RULESET_GRID_SIZE \div 2)
        ny == c[2] + p[2] - (AUTOTILE_RULESET_GRID_SIZE \div 2)
    IN  nx < 0 \/ ny < 0 \/ nx >= width \/ ny >= height

Pattern(ruleset, p) == ruleset.grid[p[1] + 1][p[2] + 1]

\* Ruleset r expects a concrete None or Tile at a position that is outside
\* the grid for cell c.
ConcreteOutside(r, c) ==
    \E p \in NonCenter : OutOfGrid(c, p) /\ Pattern(r, p) # "Any"

AfterBake == last.op = "bake"

(* ------------------------------- claims ------------------------------- *)

\* The cell the most recent compute_tile_id call asked about.
Asked == <<last.x, last.y>>

AfterCompute == last.op = "compute_tile_id"

\* What compute_tile_id returned for an in-bounds cell: the tile_id of the
\* ruleset with the smallest collection index that matches the cell, and
\* "no tile" exactly when no ruleset matches.
FirstMatchReturned ==
    (AfterCompute /\ Asked \in Cells) =>
        LET hits == Matching(rulesets, autotiles, Asked)
        IN  /\ last.ret.ok
            /\ (hits = {}) <=> (last.ret.val = None)
            /\ hits # {} => last.ret.val = Some(rulesets[Min(hits)].tile_id)

\* C1: first match wins.  add_ruleset appends at the end of the collection,
\* and for every in-bounds cell compute_tile_id returns the tile_id of the
\* ruleset with the smallest collection index that matches the cell (of two
\* matching rulesets, the one added first), "no tile" exactly when no
\* ruleset matches.
C1_FirstMatchWins ==
    /\ []FirstMatchReturned
    /\ [][last'.op = "add_ruleset" =>
              /\ Len(rulesets') = Len(rulesets) + 1
              /\ \A i \in 1..Len(rulesets) : rulesets'[i] = rulesets[i]]_vars

\* C1 happens: compute_tile_id returned the tile id of the earlier of two
\* rulesets with different tile ids that both match the cell.
C1_Witness ==
    /\ AfterCompute /\ Asked \in Cells
    /\ \E i, j \in 1..Len(rulesets) :
           /\ i < j
           /\ {i, j} \subseteq Matching(rulesets, autotiles, Asked)
           /\ rulesets[i].tile_id # rulesets[j].tile_id
           /\ last.ret = Ok(Some(rulesets[i].tile_id))

\* C2: boundary semantics.  For an occupied cell, a non-center pattern
\* position whose neighbour lies outside the grid is satisfied if and only if
\* the pattern value there is Any, and a ruleset with a concrete None or Tile
\* at such a position does not match the cell, so that compute_tile_id never
\* returns the tile id of such a ruleset.
C2_BoundaryOnlyAny ==
    (AfterCompute /\ Asked \in Cells /\ Occupied(autotiles, Asked)) =>
        LET outside == {p \in NonCenter : OutOfGrid(Asked, p)}
        IN  /\ \A r \in RulesetPool :
                   /\ \A p \in outside :
                          matches_position(r, autotiles, width, height,
                                           Asked[1], Asked[2], p[1], p[2])
                              <=> Pattern(r, p) = "Any"
                   /\ ConcreteOutside(r, Asked) =>
                          ~matches(r, autotiles, width, height, Asked[1], Asked[2])
            /\ (\A i \in 1..Len(rulesets) : ConcreteOutside(rulesets[i], Asked)) =>
                   last.ret = Ok(None)

\* C2 happens: compute_tile_id found no tile for an occupied cell whose only
\* ruleset is satisfied at every position inside the grid, some of them
\* concrete, and expects a concrete value at a position outside it.
C2_Witness ==
    /\ AfterCompute /\ Asked \in Cells /\ Occupied(autotiles, Asked)
    /\ Len(rulesets) = 1
    /\ ConcreteOutside(rulesets[1], Asked)
    /\ \A p \in NonCenter :
           ~OutOfGrid(Asked, p) =>
               matches_position(rulesets[1], autotiles, width, height,
                                Asked[1], Asked[2], p[1], p[2])
    /\ \E p \in NonCenter : ~OutOfGrid(Asked, p) /\ Pattern(rulesets[1], p) # "Any"
    /\ last.ret = Ok(None)

\* C3: center-occupancy precondition.  For every in-bounds cell whose
\* occupancy is None compute_tile_id returns "no tile" whatever the rulesets,
\* and after bake() the Base Tile Grid is empty at every such cell.
C3_UnoccupiedNoTile ==
    \A c \in Cells :
        ~Occupied(autotiles, c) =>
            /\ compute_tile_id(c[1], c[2]) = Ok(None)
            /\ AfterBake => get_tile_id(c[1], c[2]) = Ok(None)

\* C3 happens: after a bake with an all-Any ruleset in the collection an
\* unoccupied cell is empty next to an occupied cell that holds a tile.
C3_Witness ==
    /\ AfterBake
    /\ \E i \in 1..Len(rulesets) : rulesets[i].grid = GridAllAny
    /\ \E c, d \in Cells :
           /\ ~Occupied(autotiles, c) /\ tiles[At(c)] = None
           /\ Occupied(autotiles, d) /\ tiles[At(d)] # None

\* C4: bake() is a projection of the current state.  When bake() has
\* returned successfully, get_tile_id equals compute_tile_id at every
\* in-bounds cell.
C4_BakeProjects ==
    (AfterBake /\ last.ret.ok) =>
        \A c \in Cells : get_tile_id(c[1], c[2]) = compute_tile_id(c[1], c[2])

\* C4 happens: a bake emptied a cell that held a tile before it, and wrote a
\* tile to another cell.
C4_Witness ==
    /\ AfterBake /\ last.ret.ok
    /\ snap # None
    /\ \E c, d \in Cells :
           /\ snap[1].tiles[At(c)] # None /\ tiles[At(c)] = None
           /\ tiles[At(d)] # None

\* C5 (as claimed): compute_tile_id with a coordinate outside the grid
\* signals a bounds failure rather than a successful "no tile".
C5_OutOfBoundsFails ==
    (AfterCompute /\ Asked \notin Cells) => ~last.ret.ok

\* C6: bake() is idempotent and does not touch its inputs.  No bake changes
\* the Occupancy Grid or the ruleset collection, and a bake made directly
\* after a bake leaves the Base Tile Grid as it was.
C6_BakeIdempotent ==
    [][last'.op = "bake" =>
          /\ autotiles' = autotiles
          /\ rulesets' = rulesets
          /\ (last.op = "bake" => tiles' = tiles)]_vars

\* C6 happens: two bakes in a row, with tiles in the Base Tile Grid.
C6_Witness ==
    /\ AfterBake /\ last.again
    /\ \E c \in Cells : tiles[At(c)] # None

\* What set_autotile(x, y, v) does to the occupancy markers: on success the
\* marker of (x, y) is v and no other marker changes; on failure none changes.
\* set_tile(x, y) and set_none(x, y) do what set_autotile does with Tile and None.
SetAutotileEffect ==
    /\ \A xy \in Coords, v \in AutoTile :
        LET done == set_autotile(xy[1], xy[2], v)
        IN  IF xy \in Cells
            THEN /\ done.ret.ok
                 /\ done.autotiles[At(xy)] = v
                 /\ \A c \in Cells \ {xy} : done.autotiles[At(c)] = autotiles[At(c)]
            ELSE /\ ~done.ret.ok
                 /\ done.autotiles = autotiles
    /\ \A xy \in Coords :
           /\ set_tile(xy[1], xy[2]) = set_autotile(xy[1], xy[2], "Tile")
           /\ set_none(xy[1], xy[2]) = set_autotile(xy[1], xy[2], "None")

\* C7: occupancy edits are lazy.  set_tile, set_none and set_autotile,
\* whether they succeed or fail, leave the Base Tile Grid and the ruleset
\* collection unchanged and change the marker of at most the one cell they
\* name; the Base Tile Grid changes only during bake().
C7_EditsLazy ==
    /\ []SetAutotileEffect
    /\ [][/\ last'.op = "set_autotile" =>
               /\ tiles' = tiles
               /\ rulesets' = rulesets
               /\ Cardinality({c \in Cells : autotiles'[At(c)] # autotiles[At(c)]}) <= 1
               /\ last'.ret.ok \/ autotiles' = autotiles
          /\ tiles' # tiles => last'.op = "bake"]_vars

\* C7 happens: after a successful edit the Base Tile Grid still shows the
\* tiles of the bake before it, which are no longer what a bake would write.
C7_Witness ==
    /\ last.op = "set_autotile" /\ last.ret.ok
    /\ \E c \in Cells : tiles[At(c)] # None
    /\ \E c \in Cells : get_tile_id(c[1], c[2]) # compute_tile_id(c[1], c[2])

\* The state before the remove_ruleset call that snap records was a baked one.
SnapBaked == Baked(snap[1].tiles, snap[1].rulesets, snap[1].autotiles)

\* The index of the ruleset that the remove_ruleset call of snap had to remove.
SnapRemoved ==
    Min({i \in 1..Len(snap[1].rulesets) : snap[1].rulesets[i].tile_id = snap[1].tile_id})

SnapRemovedSome ==
    \E i \in 1..Len(snap[1].rulesets) : snap[1].rulesets[i].tile_id = snap[1].tile_id

\* C8: remove_ruleset then bake.  Starting from a baked state, after
\* remove_ruleset(id) and bake(), a cell the removed ruleset alone matched
\* holds no tile, a cell it matched first holds the tile_id of the first
\* remaining match, and a cell whose first match came earlier in the
\* collection keeps its tile.
C8_RemoveThenBake ==
    (AfterBake /\ snap # None /\ SnapRemovedSome /\ SnapBaked) =>
        \A c \in Cells :
            LET old == snap[1].rulesets
                k == SnapRemoved
                hits == Matching(old, snap[1].autotiles, c)
            IN  /\ hits = {k} => tiles[At(c)] = None
                /\ (hits # {} /\ Min(hits) = k /\ hits # {k}) =>
                       tiles[At(c)] = Some(old[Min(hits \ {k})].tile_id)
                /\ (hits # {} /\ Min(hits) < k) =>
                       /\ tiles[At(c)] = snap[1].tiles[At(c)]
                       /\ tiles[At(c)] = Some(old[Min(hits)].tile_id)

\* C8 happens: from a baked state a ruleset was removed and a bake made; one
\* cell it alone matched lost its tile and another took the next match's.
C8_Witness ==
    /\ AfterBake /\ snap # None /\ SnapRemovedSome /\ SnapBaked
    /\ \E c, d \in Cells :
           LET hitsc == Matching(snap[1].rulesets, snap[1].autotiles, c)
               hitsd == Matching(snap[1].rulesets, snap[1].autotiles, d)
           IN  /\ hitsc = {SnapRemoved}
               /\ snap[1].tiles[At(c)] # None /\ tiles[At(c)] = None
               /\ hitsd # {} /\ Min(hitsd) = SnapRemoved /\ hitsd # {SnapRemoved}
               /\ tiles[At(d)] # None /\ tiles[At(d)] # snap[1].tiles[At(d)]

\* The ruleset of the doc comment's Ex 1.
AloneRuleset == [tile_id |-> 1, grid |-> GridAlone]

\* No cell of the grid within the 3x3 area around c, other than c, is occupied.
CompletelyAlone(c) ==
    /\ Occupied(autotiles, c)
    /\ \A d \in Cells \ {c} :
           (d[1] - c[1] \in -1..1 /\ d[2] - c[2] \in -1..1) => ~Occupied(autotiles, d)

\* C9 (as claimed): the "completely alone" ruleset of Ex 1 matches every
\* occupied cell with no occupied cell of the grid in the 3x3 area around it,
\* on an edge or a corner too, and bake() gives the cell its tile_id when it
\* is the only ruleset.
C9_AloneDisplayed ==
    \A c \in Cells :
        CompletelyAlone(c) =>
            /\ matches(AloneRuleset, autotiles, width, height, c[1], c[2])
            /\ (AfterBake /\ rulesets = <<AloneRuleset>>) =>
                   tiles[At(c)] = Some(AloneRuleset.tile_id)

\* C10: remove_ruleset(tile_id) removes exactly the first ruleset with that
\* tile_id and returns it, every other ruleset staying in order; it returns
\* nothing and leaves the collection unchanged when there is none; the
\* Occupancy Grid and the Base Tile Grid are unchanged either way.
C10_RemoveFirstOnly ==
    last.op = "remove_ruleset" =>
        LET old == snap[1].rulesets
            same == {i \in 1..Len(old) : old[i].tile_id = snap[1].tile_id}
        IN  /\ autotiles = snap[1].autotiles
            /\ tiles = snap[1].tiles
            /\ same = {} => (last.ret = None /\ rulesets = old)
            /\ same # {} =>
                   /\ last.ret = Some(old[Min(same)])
                   /\ Len(rulesets) = Len(old) - 1
                   /\ \A i \in 1..Len(rulesets) :
                          rulesets[i] = IF i < Min(same) THEN old[i] ELSE old[i + 1]

\* C10 happens: from a collection of three rulesets the second, the first
\* with its tile_id, was removed and returned; the first and the third, which
\* has the same tile_id, are left in their order, and the Base Tile Grid
\* still holds the tiles of the bake before.
C10_Witness ==
    /\ last.op = "remove_ruleset"
    /\ Len(snap[1].rulesets) = 3
    /\ snap[1].rulesets[1].tile_id # snap[1].tile_id
    /\ snap[1].rulesets[2].tile_id = snap[1].tile_id
    /\ snap[1].rulesets[3].tile_id = snap[1].tile_id
    /\ snap[1].rulesets[3] # snap[1].rulesets[2]
    /\ last.ret = Some(snap[1].rulesets[2])
    /\ rulesets = <<snap[1].rulesets[1], snap[1].rulesets[3]>>
    /\ get_ruleset(snap[1].tile_id) = Some(snap[1].rulesets[3])
    /\ \E c \in Cells : tiles[At(c)] # None

====
